---- MODULE Spec2Model ----
(***************************************************************************)
(* A model of rusty-prompt's completion core (src/src/completion.rs):      *)
(* the scrolling-selection state machine CompletionManager and the         *)
(* suggestion formatter format_texts / format_suggestions; and of the      *)
(* queries of its text buffer, Document (src/src/document.rs).             *)
(***************************************************************************)
EXTENDS Integers, Sequences, FiniteSets, TLC

VARIABLES
    selected,         \* CompletionManager.selected (i32, -1 = not completing)
    tmp,              \* CompletionManager.tmp, the candidate list
    max,              \* CompletionManager.max, the window size
    vertical_scroll,  \* CompletionManager.vertical_scroll
    completer,        \* CompletionManager.completer: free, or fixed to one list
    op,               \* the method called last
    invoked,          \* the completer calls made during that call: input and result
    pre,              \* the fields when that call began
    run,              \* consecutive next() calls since the session was idle on the completer's list
    call,             \* the formatter call under way: function and arguments
    result,           \* what that call gave: a panic, or rows and a width
    overflow_checks,  \* the build: usize overflow panics (debug) or wraps (release)
    doc,              \* the Document under query: text (bytes) and cursor_position
    answer            \* the Document query run on it: function, arguments, value or panic

manager_vars == <<selected, tmp, max, vertical_scroll, completer, op, invoked, pre, run>>

formatter_vars == <<call, result, overflow_checks>>

document_vars == <<doc, answer>>

vars == <<manager_vars, formatter_vars, document_vars>>

(***************************************************************************)
(* Bounds of the model.                                                    *)
(***************************************************************************)
MaxCands == 6
MaxWindow == 3
MaxText == 5
MaxRows == 2
MaxMax == 12
UsizeBits == 16
MaxDocChars == 3
MaxCount == 2

Min(a, b) == IF a <= b THEN a ELSE b

(***************************************************************************)
(* The completer.  A candidate list is a sequence of suggestions; the      *)
(* manager never looks inside a suggestion, so one is a tag here.          *)
(***************************************************************************)
Tags == {"x", "y"}

Inputs == {"", "ls"}

\* A list of n equal suggestions.
Uniform(n, t) == [i \in 1..n |-> t]

CompleterResults == {Uniform(n, t) : n \in 0..MaxCands, t \in Tags}

\* Completer::complete: the results a call with `input` may give.
complete(c, input) == IF c.fixed THEN {c.list} ELSE CompleterResults

\* The completers of the model: one that may answer anything on each call, and
\* the ones that answer every call with the same list.
AnyCompleter == [fixed |-> FALSE, list |-> <<>>]

FixedCompleter(l) == [fixed |-> TRUE, list |-> l]

Completers == {AnyCompleter} \cup {FixedCompleter(l) : l \in CompleterResults}

(***************************************************************************)
(* The manager as a value: the fields, and the completer calls made.       *)
(***************************************************************************)
Self ==
    [selected |-> selected, tmp |-> tmp, max |-> max,
     vertical_scroll |-> vertical_scroll, invoked |-> <<>>]

\* CompletionManager::new
new(c, mx) ==
    [selected |-> -1, tmp |-> <<>>, max |-> mx, vertical_scroll |-> 0,
     invoked |-> <<>>]

\* update_suggestions that also drops a selection the new list does not hold.
update_suggestions_clamping(m, input, res) ==
    LET u == [m EXCEPT !.tmp = res,
                       !.invoked = Append(@, [input |-> input, result |-> res])]
    IN  IF u.selected >= Len(res)
        THEN [u EXCEPT !.selected = -1, !.vertical_scroll = 0]
        ELSE u

\* `res` is what the completer returns if this call reaches it.
update_suggestions(m, input, res) ==
    [m EXCEPT !.tmp = res,
              !.invoked = Append(@, [input |-> input, result |-> res])]

\* reset that forgets to rewind the window.
reset_keeping_scroll(m, res) ==
    update_suggestions([m EXCEPT !.selected = -1], "", res)

reset(m, res) ==
    update_suggestions([m EXCEPT !.selected = -1, !.vertical_scroll = 0], "", res)

\* update that wraps to the last page without capping the window at the list.
update_uncapped(m, res) ==
    IF m.selected > -1 /\ m.selected >= Len(m.tmp)
    THEN reset(m, res)
    ELSE IF m.selected < -1
         THEN [m EXCEPT !.selected = Len(m.tmp) - 1,
                        !.vertical_scroll = Len(m.tmp) - m.max]
         ELSE m

\* update that resets only once the selection is past the end by more than one.
update_late_reset(m, res) ==
    LET mx == Min(m.max, Len(m.tmp))
    IN  IF m.selected > -1 /\ m.selected > Len(m.tmp)
        THEN reset(m, res)
        ELSE IF m.selected < -1
             THEN [m EXCEPT !.selected = Len(m.tmp) - 1,
                            !.vertical_scroll = Len(m.tmp) - mx]
             ELSE m

\* update without the wrap to the last candidate.
update_without_wrap(m, res) ==
    IF m.selected > -1 /\ m.selected >= Len(m.tmp)
    THEN reset(m, res)
    ELSE m

update(m, res) ==
    LET mx == Min(m.max, Len(m.tmp))
    IN  IF m.selected > -1 /\ m.selected >= Len(m.tmp)
        THEN reset(m, res)
        ELSE IF m.selected < -1
             THEN [m EXCEPT !.selected = Len(m.tmp) - 1,
                            !.vertical_scroll = Len(m.tmp) - mx]
             ELSE m

\* previous that refreshes the candidates on every move.
previous_refreshing(m, res) ==
    LET scrolled == IF m.vertical_scroll = m.selected /\ m.selected > 0
                    THEN [m EXCEPT !.vertical_scroll = @ - 1]
                    ELSE m
    IN  update(update_suggestions([scrolled EXCEPT !.selected = @ - 1], "", res), res)

\* previous that scrolls at the top edge even from the first candidate.
previous_scrolling_at_zero(m, res) ==
    LET scrolled == IF m.vertical_scroll = m.selected
                    THEN [m EXCEPT !.vertical_scroll = @ - 1]
                    ELSE m
    IN  update([scrolled EXCEPT !.selected = @ - 1], res)

previous(m, res) ==
    LET scrolled == IF m.vertical_scroll = m.selected /\ m.selected > 0
                    THEN [m EXCEPT !.vertical_scroll = @ - 1]
                    ELSE m
    IN  update([scrolled EXCEPT !.selected = @ - 1], res)

\* next that never scrolls the window.
next_not_scrolling(m, res) ==
    update([m EXCEPT !.selected = @ + 1], res)

\* next that scrolls one row before the bottom edge of the window.
next_scrolling_early(m, res) ==
    LET scrolled == IF m.vertical_scroll + m.max - 2 = m.selected
                    THEN [m EXCEPT !.vertical_scroll = @ + 1]
                    ELSE m
    IN  update([scrolled EXCEPT !.selected = @ + 1], res)

next(m, res) ==
    LET scrolled == IF m.vertical_scroll + m.max - 1 = m.selected
                    THEN [m EXCEPT !.vertical_scroll = @ + 1]
                    ELSE m
    IN  update([scrolled EXCEPT !.selected = @ + 1], res)

completing(m) == m.selected # -1

(***************************************************************************)
(* Strings.  A Rust String is UTF-8: a sequence of bytes here, one token    *)
(* per byte.  "C3" "A9" are the two bytes of one scalar value (e-acute);   *)
(* every other token is a one-byte scalar value.                           *)
(***************************************************************************)
LF == "\n"

CR == "\r"

Lead == "C3"

Continuation == "A9"

SHORTEN_SUFFIX == <<".", ".", ".">>

LEFT_PREFIX == <<" ">>

LEFT_SUFFIX == <<" ">>

RIGHT_PREFIX == <<" ">>

RIGHT_SUFFIX == <<" ">>

\* " ".repeat(k)
Spaces(k) == [i \in 1..k |-> " "]

\* str::is_char_boundary
is_char_boundary(s, k) ==
    \/ k = 0
    \/ k = Len(s)
    \/ k < Len(s) /\ s[k + 1] # Continuation

\* s.chars().count()
chars_count(s) == Cardinality({k \in 1..Len(s) : s[k] # Continuation})

Panic == [panic |-> TRUE, s |-> <<>>, v |-> 0]

Value(v) == [panic |-> FALSE, s |-> <<>>, v |-> v]

Text(s) == [panic |-> FALSE, s |-> s, v |-> 0]

\* usize is 64 bits wide on the targets; TLC's integers are 32 bits wide, so the
\* model keeps the width as a parameter.  All that a wrapped difference does in
\* this code is exceed every string length.
UsizeModulus == 2 ^ UsizeBits

\* a - b on usize: panics when overflow checks are on, wraps when they are off.
usize_sub(a, b, checks) ==
    IF a >= b
    THEN Value(a - b)
    ELSE IF checks THEN Panic ELSE Value(UsizeModulus - (b - a))

\* String::truncate: no effect past the end, panics inside a scalar value.
truncate(s, new_len) ==
    IF new_len <= Len(s)
    THEN IF is_char_boundary(s, new_len) THEN Text(SubSeq(s, 1, new_len)) ELSE Panic
    ELSE Text(s)

\* format!("{:count$}", x): x padded on the right to `count` characters.
format_width(x, count) ==
    IF chars_count(x) < count THEN x \o Spaces(count - chars_count(x)) ELSE x

\* str::replace(pat, "")
replace_with_nothing(s, pat) == SelectSeq(s, LAMBDA b : b # pat)

delete_break_line_characters(s) ==
    replace_with_nothing(replace_with_nothing(s, LF), CR)

\* Iterator::max over a set of lengths, with unwrap_or(0).
MaxOf(S) ==
    IF S = {} THEN 0
    ELSE LET x == CHOOSE y \in S : \A z \in S : z <= y IN x

(***************************************************************************)
(* format_texts.                                                           *)
(***************************************************************************)
\* The width the column would like: the longest entry, line breaks deleted.
natural_width(o) ==
    MaxOf({Len(delete_break_line_characters(o[i])) : i \in 1..Len(o)})

\* `if min >= max` with the budget one column too generous.
budget_too_small_strict(min, mx) == min > mx

\* `if min >= max`: no room for the padding and the marker.
budget_too_small(min, mx) == min >= mx

\* working_width without the cap at the budget.
working_width_uncapped(width, mx, len_prefix, len_suffix) == width

\* The width the entries are laid out in.
working_width(width, mx, len_prefix, len_suffix) ==
    IF len_prefix + width + len_suffix > mx
    THEN mx - len_prefix - len_suffix
    ELSE width

\* One turn of the loop: the entry as it goes to n[idx], or a panic.
format_entry(i, width, prefix, suffix, checks) ==
    LET x == Len(i)
    IN  IF x <= width
        THEN Text(prefix \o i \o Spaces(width - x) \o suffix)
        ELSE LET cut == usize_sub(width, Len(SHORTEN_SUFFIX), checks)
                 t == truncate(i, cut.v)
                 shortened == t.s \o SHORTEN_SUFFIX
                 padded == IF Len(shortened) < width
                           THEN format_width(shortened, width - Len(shortened))
                           ELSE shortened
             IN  IF cut.panic \/ t.panic
                 THEN Panic
                 ELSE Text(prefix \o padded \o suffix)

NoRows == <<>>

Panicked == [panic |-> TRUE, rows |-> NoRows, width |-> 0]

Returned(rows, width) == [panic |-> FALSE, rows |-> rows, width |-> width]

format_texts(o, mx, prefix, suffix, checks) ==
    LET n == [idx \in 1..Len(o) |-> <<>>]
        len_prefix == Len(prefix)
        len_suffix == Len(suffix)
        len_shorten == Len(SHORTEN_SUFFIX)
        min == len_prefix + len_suffix + len_shorten
        width0 == natural_width(o)
        width == working_width(width0, mx, len_prefix, len_suffix)
        done == [idx \in 1..Len(o) |-> format_entry(o[idx], width, prefix, suffix, checks)]
    IN  IF width0 = 0
        THEN Returned(n, width0)
        ELSE IF budget_too_small(min, mx)
             THEN Returned(n, 0)
             ELSE IF \E idx \in 1..Len(o) : done[idx].panic
                  THEN Panicked
                  ELSE Returned([idx \in 1..Len(o) |-> done[idx].s],
                                len_prefix + width + len_suffix)

(***************************************************************************)
(* format_suggestions.                                                     *)
(***************************************************************************)
\* Suggestion::new
Suggestion(text, description) == [text |-> text, description |-> description]

\* format_suggestions with the descriptions formatted against the full max.
format_suggestions_full_budget(suggestions, mx, checks) ==
    LET left_in == [i \in 1..Len(suggestions) |-> suggestions[i].text]
        right_in == [i \in 1..Len(suggestions) |-> suggestions[i].description]
        left == format_texts(left_in, mx, LEFT_PREFIX, LEFT_SUFFIX, checks)
        right == IF mx > left.width
                 THEN format_texts(right_in, mx, RIGHT_PREFIX, RIGHT_SUFFIX, checks)
                 ELSE Returned([i \in 1..Len(right_in) |-> <<>>], 0)
    IN  IF left.panic
        THEN Panicked
        ELSE IF left.width = 0
             THEN Returned(<<>>, 0)
             ELSE IF right.panic
                  THEN Panicked
                  ELSE Returned([i \in 1..Len(suggestions) |->
                                    Suggestion(left.rows[i], right.rows[i])],
                                left.width + right.width)

format_suggestions(suggestions, mx, checks) ==
    LET left_in == [i \in 1..Len(suggestions) |-> suggestions[i].text]
        right_in == [i \in 1..Len(suggestions) |-> suggestions[i].description]
        left == format_texts(left_in, mx, LEFT_PREFIX, LEFT_SUFFIX, checks)
        right == IF mx > left.width
                 THEN format_texts(right_in, mx - left.width,
                                   RIGHT_PREFIX, RIGHT_SUFFIX, checks)
                 ELSE Returned([i \in 1..Len(right_in) |-> <<>>], 0)
    IN  IF left.panic
        THEN Panicked
        ELSE IF left.width = 0
             THEN Returned(<<>>, 0)
             ELSE IF right.panic
                  THEN Panicked
                  ELSE Returned([i \in 1..Len(suggestions) |->
                                    Suggestion(left.rows[i], right.rows[i])],
                                left.width + right.width)

(***************************************************************************)
(* The inputs the formatter is run on.                                     *)
(***************************************************************************)
Letters == <<"a", "b", "c", "d", "e", "f", "g", "h">>

\* The first k letters.
Plain(k) == [i \in 1..k |-> Letters[i]]

\* s with the bytes `ins` put in after its first `at` bytes.
Insert(s, at, ins) == SubSeq(s, 1, at) \o ins \o SubSeq(s, at + 1, Len(s))

PlainTexts == {Plain(k) : k \in 0..MaxText}

Specials == {<<LF>>, <<CR>>, <<Lead, Continuation>>}

\* Texts of at most MaxText bytes: plain ones, and ones holding a line break
\* or a two-byte scalar value at any place.
Texts ==
    PlainTexts \cup
    {Insert(Plain(k), at, ins) :
        <<k, at, ins>> \in {t \in (0..MaxText) \X (0..MaxText) \X Specials :
                               t[2] <= t[1] /\ t[1] + Len(t[3]) <= MaxText}}

apple == <<"a", "p", "p", "l", "e">>

banana == <<"b", "a", "n", "a", "n", "a">>

coconut == <<"c", "o", "c", "o", "n", "u", "t">>

\* The lists of entries: any text first, plain texts after it.
EntryLists ==
    {<<>>} \cup
    UNION {{<<t>> \o rest : t \in Texts, rest \in [1..(n - 1) -> PlainTexts]} :
              n \in 1..MaxRows}

Paddings == {<<>>, <<" ">>}

Labels == {Plain(0), Plain(1), Plain(3), Insert(Plain(2), 1, <<LF>>)}

Descriptions == {Plain(0), Plain(2), Plain(MaxText + 1), Insert(Plain(2), 2, <<CR>>)}

Suggestions == {Suggestion(t, d) : t \in Labels, d \in Descriptions}

SuggestionLists == UNION {[1..n -> Suggestions] : n \in 0..MaxRows}

TextsCall(o, mx, prefix, suffix) ==
    [fn |-> "format_texts", o |-> o, suggestions |-> <<>>, max |-> mx,
     prefix |-> prefix, suffix |-> suffix]

SuggestionsCall(suggestions, mx) ==
    [fn |-> "format_suggestions", o |-> <<>>, suggestions |-> suggestions,
     max |-> mx, prefix |-> LEFT_PREFIX, suffix |-> LEFT_SUFFIX]

NoCall == [fn |-> "none", o |-> <<>>, suggestions |-> <<>>, max |-> 0,
           prefix |-> <<>>, suffix |-> <<>>]

\* The calls of the tests at completion.rs:230-410 that the claims cite.
FixtureCalls ==
    {TextsCall(<<apple, banana, coconut>>, mx, <<" ">>, <<" ">>) : mx \in {2, 5, 6, 100}}
    \cup
    {SuggestionsCall(<<Suggestion(apple, <<>>), Suggestion(banana, <<>>),
                       Suggestion(coconut, <<>>)>>, mx) : mx \in {3, 8, 100}}

NoResult == [fn |-> "none", panic |-> FALSE, rows |-> NoRows, width |-> 0]

Result(fn, r) == [fn |-> fn, panic |-> r.panic, rows |-> r.rows, width |-> r.width]

(***************************************************************************)
(* Document (src/src/document.rs): a text and a cursor, and the queries    *)
(* on them.  The text is its UTF-8 bytes; the cursor counts scalar values. *)
(***************************************************************************)
\* struct Document; last_key is read by none of the queries modelled here.
Document(text, cursor_position) ==
    [text |-> text, cursor_position |-> cursor_position]

\* Document::new
NewDocument == Document(<<>>, 0)

\* str::chars: the scalar values of s, each as its bytes.
RECURSIVE chars(_)
chars(s) ==
    IF s = <<>>
    THEN <<>>
    ELSE LET size == IF s[1] = Lead THEN 2 ELSE 1
         IN  <<SubSeq(s, 1, size)>> \o chars(SubSeq(s, size + 1, Len(s)))

\* collect::<String>() of an iterator over scalar values or strings.
RECURSIVE collect(_)
collect(cs) == IF cs = <<>> THEN <<>> ELSE cs[1] \o collect(Tail(cs))

\* i32 as usize: a negative value comes out above every length.
as_usize(x) == IF x < 0 THEN UsizeModulus + x ELSE x

\* Iterator::take and Iterator::skip
take(cs, n) == SubSeq(cs, 1, Min(n, Len(cs)))

skip(cs, n) == SubSeq(cs, Min(n, Len(cs)) + 1, Len(cs))

\* char::default()
DefaultChar == <<"NUL">>

\* The loop of get_char_relative_to_cursor: cs is what is left of the text,
\* count the number of scalar values taken off it so far.
RECURSIVE char_scan(_, _, _)
char_scan(cs, count, target) ==
    IF cs = <<>>
    THEN DefaultChar
    ELSE IF count + 1 = target
         THEN cs[1]
         ELSE char_scan(Tail(cs), count + 1, target)

\* get_char_relative_to_cursor with the count taken before it is raised.
get_char_relative_to_cursor_from_zero(d, offset) ==
    char_scan(chars(d.text), 0, d.cursor_position + offset + 1)

get_char_relative_to_cursor(d, offset) ==
    char_scan(chars(d.text), 0, d.cursor_position + offset)

text_before_cursor(d) ==
    collect(take(chars(d.text), as_usize(d.cursor_position)))

text_after_cursor(d) ==
    collect(skip(chars(d.text), as_usize(d.cursor_position)))

\* Option<usize>
None == [some |-> FALSE, v |-> 0]

Some(v) == [some |-> TRUE, v |-> v]

\* The byte offsets (0-based) at which a scalar value of s that is in the set
\* `pat` starts.
Matches(s, pat) ==
    {k \in 0..(Len(s) - 1) :
        /\ s[k + 1] # Continuation
        /\ \E c \in pat : Len(c) <= Len(s) - k /\ SubSeq(s, k + 1, k + Len(c)) = c}

\* str::rfind with a char or a closure over chars: the byte offset of the last match.
rfind(s, pat) ==
    IF Matches(s, pat) = {} THEN None ELSE Some(MaxOf(Matches(s, pat)))

\* The separator characters of a separator string.
SepChars(sep) == {chars(sep)[i] : i \in 1..Len(chars(sep))}

find_start_of_previous_word(d) ==
    LET found == rfind(text_before_cursor(d), {<<" ">>})
    IN  IF found.some THEN found.v + 1 ELSE 0

find_start_of_previous_word_until_separator(d, sep) ==
    IF sep = <<>>
    THEN find_start_of_previous_word(d)
    ELSE LET found == rfind(text_before_cursor(d), SepChars(sep))
         IN  IF found.some THEN found.v + 1 ELSE 0

\* The byte offsets at which a scalar value of s that is not in `pat` starts.
Others(s, pat) ==
    {k \in 0..(Len(s) - 1) : s[k + 1] # Continuation /\ k \notin Matches(s, pat)}

MinOf(S) == CHOOSE x \in S : \A y \in S : x <= y

\* str::rfind and str::find with a closure that holds off `pat`; str::find
\* with a char or a closure that holds on `pat`.
rfind_not(s, pat) ==
    IF Others(s, pat) = {} THEN None ELSE Some(MaxOf(Others(s, pat)))

find(s, pat) ==
    IF Matches(s, pat) = {} THEN None ELSE Some(MinOf(Matches(s, pat)))

find_not(s, pat) ==
    IF Others(s, pat) = {} THEN None ELSE Some(MinOf(Others(s, pat)))

\* str::split_at; every `mid` the queries pass is the offset at which a
\* scalar value starts, where split_at does not panic.
split_at(s, mid) == <<SubSeq(s, 1, mid), SubSeq(s, mid + 1, Len(s))>>

\* The body shared by find_start_of_previous_word_with_space (pat = {' '})
\* and the ignore_next_to_cursor variant (pat = the separators).
start_after_skipping(d, pat) ==
    LET end == rfind_not(text_before_cursor(d), pat)
    IN  IF ~end.some
        THEN 0
        ELSE LET start == rfind(split_at(text_before_cursor(d), end.v)[1], pat)
             IN  IF start.some THEN start.v + 1 ELSE 0

find_start_of_previous_word_with_space(d) == start_after_skipping(d, {<<" ">>})

\* The ignore_next_to_cursor variant with the empty set falling back to the
\* plain-space variant.
find_start_of_previous_word_until_separator_ignore_next_to_cursor_plain(d, sep) ==
    IF sep = <<>>
    THEN find_start_of_previous_word(d)
    ELSE start_after_skipping(d, SepChars(sep))

find_start_of_previous_word_until_separator_ignore_next_to_cursor(d, sep) ==
    IF sep = <<>>
    THEN find_start_of_previous_word_with_space(d)
    ELSE start_after_skipping(d, SepChars(sep))

\* .find(..).unwrap_or_else(|| self.text_after_cursor().len())
first_or_len(d, pat) ==
    LET found == find(text_after_cursor(d), pat)
    IN  IF found.some THEN found.v ELSE Len(text_after_cursor(d))

find_end_of_current_word(d) == first_or_len(d, {<<" ">>})

\* The body shared by find_end_of_current_word_with_space and the
\* ignore_next_to_cursor variant.
end_after_skipping(d, pat) ==
    LET start == find_not(text_after_cursor(d), pat)
    IN  IF ~start.some
        THEN Len(text_after_cursor(d))
        ELSE LET end == find(split_at(text_after_cursor(d), start.v)[2], pat)
             IN  IF end.some THEN start.v + end.v ELSE Len(text_after_cursor(d))

find_end_of_current_word_with_space(d) == end_after_skipping(d, {<<" ">>})

find_end_of_current_word_until_separator(d, sep) ==
    IF sep = <<>>
    THEN find_end_of_current_word(d)
    ELSE first_or_len(d, SepChars(sep))

find_end_of_current_word_until_separator_ignore_next_to_cursor(d, sep) ==
    IF sep = <<>>
    THEN find_end_of_current_word_with_space(d)
    ELSE end_after_skipping(d, SepChars(sep))

\* str::split on a one-byte character.
RECURSIVE split(_, _)
split(s, c) ==
    IF \A k \in 1..Len(s) : s[k] # c
    THEN <<s>>
    ELSE LET k == CHOOSE j \in 1..Len(s) : s[j] = c /\ \A i \in 1..(j - 1) : s[i] # c
         IN  <<SubSeq(s, 1, k - 1)>> \o split(SubSeq(s, k + 1, Len(s)), c)

current_line_before_cursor(d) ==
    LET parts == split(text_before_cursor(d), LF) IN parts[Len(parts)]

current_line_after_cursor(d) == split(text_after_cursor(d), LF)[1]

lines(d) == split(d.text, LF)

line_count(d) == Len(lines(d))

\* The loop of line_start_indexes over the byte lengths of the lines.
RECURSIVE push_starts(_, _, _)
push_starts(indexes, pos, lengths) ==
    IF lengths = <<>>
    THEN indexes
    ELSE push_starts(Append(indexes, pos + lengths[1] + 1),
                     pos + lengths[1] + 1, Tail(lengths))

line_start_indexes(d) ==
    LET lc == line_count(d)
        lengths == [i \in 1..lc |-> Len(lines(d)[i])]
        indexes == push_starts(<<0>>, 0, lengths)
    IN  IF lc > 1 THEN SubSeq(indexes, 1, Len(indexes) - 1) ELSE indexes

\* The first place (from 1) of a set of places, the one past `len` when the
\* set is empty.
FirstOf(failing, len) ==
    IF failing = {}
    THEN len + 1
    ELSE CHOOSE k \in failing : \A j \in failing : k <= j

\* bisect::right with a strict comparison (bisect left).
right_strict(a, v) ==
    FirstOf({k \in 1..Len(a) : ~(a[k] < v)}, Len(a)) - 1

\* bisect::right: partition_point(|probe| probe <= v) on a sorted slice, the
\* number of leading items for which the comparison holds.
right(a, v) ==
    FirstOf({k \in 1..Len(a) : ~(a[k] <= v)}, Len(a)) - 1

\* (pos, indexes[pos]); bisect::right(..) - 1 below zero panics at the
\* subtraction or, wrapped, at the indexing.
find_line_start_index(d, index) ==
    LET indexes == line_start_indexes(d)
        found == right(indexes, index)
    IN  IF found = 0
        THEN Panic
        ELSE Value(<<found - 1, indexes[found]>>)

cursor_position_row(d) ==
    LET at == find_line_start_index(d, as_usize(d.cursor_position))
    IN  IF at.panic THEN Panic ELSE Value(at.v[1])

\* The line start is never above the index it was looked up for, so the
\* subtraction stays within usize.
cursor_position_col(d) ==
    LET at == find_line_start_index(d, as_usize(d.cursor_position))
    IN  IF at.panic THEN Panic ELSE Value(as_usize(d.cursor_position) - at.v[2])

\* Ord::clamp
clamp(x, lo, hi) == IF x < lo THEN lo ELSE IF x > hi THEN hi ELSE x

translate_row_col_to_index(d, row_in, column) ==
    LET indexes == line_start_indexes(d)
        row == clamp(row_in, 0, Len(indexes) - 1)
    IN  IF row >= Len(lines(d))
        THEN Panic
        ELSE LET line == lines(d)[row + 1]
                 at == IF column > 0 \/ line # <<>>
                       THEN IF column > Len(line)
                            THEN indexes[row + 1] + Len(line)
                            ELSE indexes[row + 1] + column
                       ELSE indexes[row + 1]
             IN  Value(clamp(at, 0, Len(d.text)))

\* translate_index_to_position with the index itself as the column.
translate_index_to_position_absolute(d, index) ==
    LET at == find_line_start_index(d, index)
    IN  IF at.panic THEN Panic ELSE Value(<<at.v[1], index>>)

translate_index_to_position(d, index) ==
    LET at == find_line_start_index(d, index)
    IN  IF at.panic THEN Panic ELSE Value(<<at.v[1], index - at.v[2]>>)

current_line(d) == current_line_before_cursor(d) \o current_line_after_cursor(d)

\* The White_Space characters a text of the model can hold, one byte each.
WhiteSpace == {" ", "\t", LF, CR}

\* str::trim: the whitespace at both ends taken off.
trim(s) ==
    LET inked == {k \in 1..Len(s) : s[k] \notin WhiteSpace}
    IN  IF inked = {} THEN <<>> ELSE SubSeq(s, MinOf(inked), MaxOf(inked))

\* current_line()[..idx]; slicing inside a scalar value panics.
leading_whitespace_in_current_line(d) ==
    LET idx == Len(current_line(d)) - Len(trim(current_line(d)))
    IN  IF is_char_boundary(current_line(d), idx)
        THEN Value(SubSeq(current_line(d), 1, idx))
        ELSE Panic

on_last_line(d) ==
    LET row == cursor_position_row(d)
    IN  IF row.panic THEN Panic ELSE Value(row.v = line_count(d) - 1)

RECURSIVE get_cursor_left_position(_, _)
RECURSIVE get_cursor_right_position(_, _)

get_cursor_left_position(d, count) ==
    IF count < 0
    THEN get_cursor_right_position(d, -count)
    ELSE LET col == cursor_position_col(d)
         IN  IF col.panic
             THEN Panic
             ELSE IF col.v > count THEN Value(-count) ELSE Value(-col.v)

get_cursor_right_position(d, count) ==
    IF count < 0
    THEN get_cursor_left_position(d, -count)
    ELSE IF Len(current_line_after_cursor(d)) > count
         THEN Value(count)
         ELSE Value(Len(current_line_after_cursor(d)))

\* if let Some(n) = preferred_column { n } else { self.cursor_position_col() }
column_or_current(d, preferred_column) ==
    IF preferred_column.some THEN Value(preferred_column.v) ELSE cursor_position_col(d)

\* translate_row_col_to_index(row, col) as i32 - self.cursor_position
relative_to_cursor(d, row, col) ==
    LET at == translate_row_col_to_index(d, row, col)
    IN  IF at.panic THEN Panic ELSE Value(at.v - d.cursor_position)

get_cursor_up_position(d, count, preferred_column) ==
    LET col == column_or_current(d, preferred_column)
        current == cursor_position_row(d)
    IN  IF col.panic \/ current.panic
        THEN Panic
        ELSE LET row == as_usize(IF current.v - count > 0 THEN current.v - count ELSE 0)
             IN  relative_to_cursor(d, row, col.v)

get_cursor_down_position(d, count, preferred_column) ==
    LET col == column_or_current(d, preferred_column)
        current == cursor_position_row(d)
    IN  IF col.panic \/ current.panic
        THEN Panic
        ELSE relative_to_cursor(d, as_usize(current.v + count), col.v)

(***************************************************************************)
(* The documents the queries are run on.                                   *)
(***************************************************************************)
\* A two-byte scalar value.
Wide == <<Lead, Continuation>>

LineAlphabet == {<<"a">>, Wide, <<LF>>}

WordAlphabet == {<<"a">>, Wide, <<" ">>, <<"/">>}

\* The texts of at most MaxDocChars scalar values over an alphabet.
TextsOver(alphabet) ==
    {collect(cs) : cs \in UNION {[1..n -> alphabet] : n \in 0..MaxDocChars}}

DocTexts == TextsOver(LineAlphabet) \cup TextsOver(WordAlphabet)

\* "line 1\nline 2\nline 3\nline 4\n", the text of the tests at
\* document.rs:499-516 and 969-1066.
NumberedLine(digit) == <<"l", "i", "n", "e", " ", digit, LF>>

FixtureText ==
    NumberedLine("1") \o NumberedLine("2") \o NumberedLine("3") \o NumberedLine("4")

\* The cursors of those tests: after "lin", after "line 1\nlin", and the
\* position translate_row_col_to_index(2, 3) gives.
FixtureDocuments == {Document(FixtureText, c) : c \in {3, 10, 17}}

\* The documents of the tests at document.rs:616-673: "apple bana ", "apple "
\* and "file/", the cursor at the end.
AtEnd(text) == Document(text, chars_count(text))

WordFixtureDocuments ==
    {AtEnd(apple \o <<" ", "b", "a", "n", "a", " ">>),
     AtEnd(apple \o <<" ">>),
     AtEnd(<<"f", "i", "l", "e", "/">>)}

Separators == {<<>>, <<" ">>, <<"/">>, <<" ", "/">>}

Counts == (0 - MaxCount)..MaxCount

PreferredColumns == {None} \cup {Some(c) : c \in 0..MaxCount}

NoAnswer == [fn |-> "none", args |-> <<>>, from |-> <<>>, panic |-> FALSE, v |-> 0]

Answer(fn, args, r) ==
    [fn |-> fn, args |-> args, from |-> <<>>, panic |-> r.panic, v |-> r.v]

(***************************************************************************)
(* The state machine: one action per public method.                        *)
(***************************************************************************)
Snapshot ==
    [selected |-> selected, vertical_scroll |-> vertical_scroll, tmp |-> tmp,
     max |-> max]

Store(m, name) ==
    /\ selected' = m.selected
    /\ tmp' = m.tmp
    /\ max' = m.max
    /\ vertical_scroll' = m.vertical_scroll
    /\ invoked' = m.invoked
    /\ op' = name
    /\ pre' = Snapshot
    /\ UNCHANGED <<completer, formatter_vars, document_vars>>

\* The manager right after new(completer, max), for every window size max > 0
\* the model covers (the spec's windowSize is an integer > 0).
Init ==
    /\ \E c \in Completers : completer = c
    /\ \E mx \in 1..MaxWindow :
         LET m == new(completer, mx)
         IN  /\ selected = m.selected
             /\ tmp = m.tmp
             /\ max = m.max
             /\ vertical_scroll = m.vertical_scroll
             /\ invoked = m.invoked
    /\ op = "new"
    /\ pre = Snapshot
    /\ run = 0
    /\ call = NoCall
    /\ result = NoResult
    /\ overflow_checks = TRUE
    /\ doc = NewDocument
    /\ answer = NoAnswer

CallUpdateSuggestions ==
    \E input \in Inputs : \E res \in complete(completer, input) :
        /\ Store(update_suggestions(Self, input, res), "update_suggestions")
        /\ run' = 0

CallReset ==
    \E res \in complete(completer, "") :
        /\ Store(reset(Self, res), "reset")
        /\ run' = 0

CallPrevious ==
    \E res \in complete(completer, "") :
        /\ Store(previous(Self, res), "previous")
        /\ run' = 0

CallNext ==
    \E res \in complete(completer, "") :
        /\ Store(next(Self, res), "next")
        /\ run' = IF /\ selected = -1
                     /\ vertical_scroll = 0
                     /\ completer.fixed
                     /\ tmp = completer.list
                  THEN 1
                  ELSE IF run > 0 THEN run + 1 ELSE 0

Next == CallUpdateSuggestions \/ CallReset \/ CallPrevious \/ CallNext

Spec == Init /\ [][Next]_vars

(***************************************************************************)
(* The formatter: a call is drawn, then run.                               *)
(***************************************************************************)
InitFormat ==
    /\ \/ \E o \in EntryLists, mx \in 0..MaxMax, prefix \in Paddings, suffix \in Paddings :
              call = TextsCall(o, mx, prefix, suffix)
       \/ \E l \in SuggestionLists, mx \in 0..MaxMax :
              call = SuggestionsCall(l, mx)
       \/ call \in FixtureCalls
    /\ result = NoResult
    /\ overflow_checks \in BOOLEAN
    /\ completer = AnyCompleter
    /\ selected = -1
    /\ tmp = <<>>
    /\ max = 1
    /\ vertical_scroll = 0
    /\ invoked = <<>>
    /\ op = "new"
    /\ pre = Snapshot
    /\ run = 0
    /\ doc = NewDocument
    /\ answer = NoAnswer

CallFormatTexts ==
    /\ call.fn = "format_texts"
    /\ result.fn = "none"
    /\ result' = Result("format_texts",
                        format_texts(call.o, call.max, call.prefix, call.suffix,
                                     overflow_checks))
    /\ UNCHANGED <<call, overflow_checks, manager_vars, document_vars>>

CallFormatSuggestions ==
    /\ call.fn = "format_suggestions"
    /\ result.fn = "none"
    /\ result' = Result("format_suggestions",
                        format_suggestions(call.suggestions, call.max, overflow_checks))
    /\ UNCHANGED <<call, overflow_checks, manager_vars, document_vars>>

NextFormat == CallFormatTexts \/ CallFormatSuggestions

SpecFormat == InitFormat /\ [][NextFormat]_vars

(***************************************************************************)
(* The document: a text and a cursor are drawn, then one query is run.     *)
(***************************************************************************)
InitDocument ==
    /\ \/ \E t \in DocTexts : \E c \in 0..chars_count(t) : doc = Document(t, c)
       \/ doc \in FixtureDocuments
       \/ doc \in WordFixtureDocuments
    /\ answer = NoAnswer
    /\ call = NoCall
    /\ result = NoResult
    /\ overflow_checks = TRUE
    /\ completer = AnyCompleter
    /\ selected = -1
    /\ tmp = <<>>
    /\ max = 1
    /\ vertical_scroll = 0
    /\ invoked = <<>>
    /\ op = "new"
    /\ pre = Snapshot
    /\ run = 0

Ask(fn, args, r) ==
    /\ answer.fn = "none"
    /\ answer' = Answer(fn, args, r)
    /\ UNCHANGED <<doc, manager_vars, formatter_vars>>

CallLineStartIndexes ==
    Ask("line_start_indexes", <<>>, Value(line_start_indexes(doc)))

CallFindLineStartIndex ==
    \E index \in 0..Len(doc.text) :
        Ask("find_line_start_index", <<index>>, find_line_start_index(doc, index))

CallTranslateRowColToIndex ==
    \E row \in 0..line_count(doc) :
        \E column \in 0..(MaxOf({Len(lines(doc)[i]) : i \in 1..line_count(doc)}) + 1) :
            Ask("translate_row_col_to_index", <<row, column>>,
                translate_row_col_to_index(doc, row, column))

\* translate_index_to_position on the index translate_row_col_to_index gave.
CallTranslateIndexToPosition ==
    /\ answer.fn = "translate_row_col_to_index"
    /\ ~answer.panic
    /\ LET r == translate_index_to_position(doc, answer.v)
       IN  answer' = [fn |-> "translate_index_to_position", args |-> <<answer.v>>,
                      from |-> answer.args, panic |-> r.panic, v |-> r.v]
    /\ UNCHANGED <<doc, manager_vars, formatter_vars>>

CallGetCursorUpPosition ==
    \E count \in Counts, preferred_column \in PreferredColumns :
        Ask("get_cursor_up_position", <<count, preferred_column>>,
            get_cursor_up_position(doc, count, preferred_column))

CallGetCursorDownPosition ==
    \E count \in Counts, preferred_column \in PreferredColumns :
        Ask("get_cursor_down_position", <<count, preferred_column>>,
            get_cursor_down_position(doc, count, preferred_column))

CallGetCursorLeftPosition ==
    \E count \in Counts :
        Ask("get_cursor_left_position", <<count>>, get_cursor_left_position(doc, count))

CallGetCursorRightPosition ==
    \E count \in Counts :
        Ask("get_cursor_right_position", <<count>>, get_cursor_right_position(doc, count))

CallGetCharRelativeToCursor ==
    \E offset \in Counts :
        Ask("get_char_relative_to_cursor", <<offset>>,
            Value(get_char_relative_to_cursor(doc, offset)))

CallFindStartOfPreviousWord ==
    Ask("find_start_of_previous_word", <<>>, Value(find_start_of_previous_word(doc)))

CallFindStartOfPreviousWordUntilSeparator ==
    \E sep \in Separators :
        Ask("find_start_of_previous_word_until_separator", <<sep>>,
            Value(find_start_of_previous_word_until_separator(doc, sep)))

CallFindStartOfPreviousWordWithSpace ==
    Ask("find_start_of_previous_word_with_space", <<>>,
        Value(find_start_of_previous_word_with_space(doc)))

CallFindStartOfPreviousWordUntilSeparatorIgnoreNextToCursor ==
    \E sep \in Separators :
        Ask("find_start_of_previous_word_until_separator_ignore_next_to_cursor",
            <<sep>>,
            Value(find_start_of_previous_word_until_separator_ignore_next_to_cursor(doc, sep)))

CallFindEndOfCurrentWord ==
    Ask("find_end_of_current_word", <<>>, Value(find_end_of_current_word(doc)))

CallFindEndOfCurrentWordWithSpace ==
    Ask("find_end_of_current_word_with_space", <<>>,
        Value(find_end_of_current_word_with_space(doc)))

CallFindEndOfCurrentWordUntilSeparator ==
    \E sep \in Separators :
        Ask("find_end_of_current_word_until_separator", <<sep>>,
            Value(find_end_of_current_word_until_separator(doc, sep)))

CallFindEndOfCurrentWordUntilSeparatorIgnoreNextToCursor ==
    \E sep \in Separators :
        Ask("find_end_of_current_word_until_separator_ignore_next_to_cursor",
            <<sep>>,
            Value(find_end_of_current_word_until_separator_ignore_next_to_cursor(doc, sep)))

CallLeadingWhitespaceInCurrentLine ==
    Ask("leading_whitespace_in_current_line", <<>>,
        leading_whitespace_in_current_line(doc))

CallCursorPositionRow ==
    Ask("cursor_position_row", <<>>, cursor_position_row(doc))

CallCursorPositionCol ==
    Ask("cursor_position_col", <<>>, cursor_position_col(doc))

CallOnLastLine ==
    Ask("on_last_line", <<>>, on_last_line(doc))

NextDocument ==
    \/ CallLineStartIndexes
    \/ CallFindLineStartIndex
    \/ CallTranslateRowColToIndex
    \/ CallTranslateIndexToPosition
    \/ CallGetCursorUpPosition
    \/ CallGetCursorDownPosition
    \/ CallGetCursorLeftPosition
    \/ CallGetCursorRightPosition
    \/ CallGetCharRelativeToCursor
    \/ CallFindStartOfPreviousWord
    \/ CallFindStartOfPreviousWordUntilSeparator
    \/ CallFindStartOfPreviousWordWithSpace
    \/ CallFindStartOfPreviousWordUntilSeparatorIgnoreNextToCursor
    \/ CallFindEndOfCurrentWord
    \/ CallFindEndOfCurrentWordWithSpace
    \/ CallFindEndOfCurrentWordUntilSeparator
    \/ CallFindEndOfCurrentWordUntilSeparatorIgnoreNextToCursor
    \/ CallLeadingWhitespaceInCurrentLine
    \/ CallCursorPositionRow
    \/ CallCursorPositionCol
    \/ CallOnLastLine

SpecDocument == InitDocument /\ [][NextDocument]_vars

(***************************************************************************)
(* CompletionManager: the claims.                                          *)
(***************************************************************************)
\* min(max, number of candidates), the window the renderer shows.
EffectiveWindow == Min(max, Len(tmp))

InWindow ==
    /\ vertical_scroll <= selected
    /\ selected <= vertical_scroll + EffectiveWindow - 1

\* C1 as stated: in every reachable state (window size max > 0, any completer),
\* selected # -1 implies
\* vertical_scroll <= selected <= vertical_scroll + min(max, candidates) - 1.
C1_Original == selected # -1 => InWindow

\* C1 as amended: the selection lies in the window whenever it is an index of
\* the current candidate list, and always right after new, next, previous or
\* reset; update_suggestions alone may leave a selection the list no longer holds.
C1_SelectionInWindow ==
    /\ (selected # -1 /\ selected < Len(tmp)) => InWindow
    /\ (selected # -1 /\ op # "update_suggestions") => InWindow

\* A shrunken list that still holds the selection, with the window scrolled.
C1_Witness ==
    /\ op = "update_suggestions"
    /\ selected # -1
    /\ selected < Len(tmp)
    /\ Len(tmp) < Len(pre.tmp)
    /\ vertical_scroll > 0

\* C2: from idle (selected = -1, vertical_scroll = 0) with n candidates, one
\* previous() leaves selected = n - 1 and vertical_scroll = n - min(max, n);
\* with n = 0 the session stays idle with vertical_scroll = 0.
C2_PreviousFromIdleWraps ==
    (op = "previous" /\ pre.selected = -1 /\ pre.vertical_scroll = 0) =>
        LET n == Len(pre.tmp)
        IN  /\ selected = n - 1
            /\ vertical_scroll = n - Min(max, n)
            /\ (n = 0 => selected = -1 /\ vertical_scroll = 0)

\* previous() from idle on 6 candidates with window 3: selected 5, scroll 3.
C2_Witness ==
    /\ op = "previous"
    /\ pre.selected = -1
    /\ pre.vertical_scroll = 0
    /\ Len(pre.tmp) = 6
    /\ max = 3
    /\ selected = 5
    /\ vertical_scroll = 3

\* C3 as stated: with a completer that always returns the same 6 candidates and
\* window size 3, six next() calls from idle return the session to idle.
C3_Original ==
    (completer.fixed /\ Len(completer.list) = 6 /\ max = 3 /\ run = 6) =>
        selected = -1

\* C3 as amended: with a completer that always returns the same n >= 1
\* candidates, the k-th next() from idle selects candidate k - 1 for k <= n, and
\* it is the (n + 1)-th next() that returns the session to idle (six calls on 6
\* candidates leave selected = 5, the seventh gives selected = -1).
C3_NextCyclesInNPlusOne ==
    (completer.fixed /\ Len(completer.list) >= 1 /\ run >= 1) =>
        LET n == Len(completer.list)
        IN  /\ run <= n + 1
            /\ (run <= n => selected = run - 1)
            /\ (run = n + 1 => selected = -1 /\ vertical_scroll = 0)

\* The seventh next() on 6 fixed candidates with window 3.
C3_Witness ==
    /\ completer.fixed
    /\ Len(completer.list) = 6
    /\ max = 3
    /\ run = 7
    /\ op = "next"
    /\ selected = -1

\* C4: next() on the last candidate (selected = n - 1, n >= 1) leaves the
\* session idle: selected = -1, vertical_scroll = 0, and the candidate list is
\* the completer's result for the empty input.
C4_NextPastLastResets ==
    (op = "next" /\ Len(pre.tmp) >= 1 /\ pre.selected = Len(pre.tmp) - 1) =>
        /\ selected = -1
        /\ vertical_scroll = 0
        /\ Len(invoked) = 1
        /\ invoked[1].input = ""
        /\ tmp = invoked[1].result

\* next() past the last of 6 candidates; the window was scrolled to the end
\* and the refresh brought another list.
C4_Witness ==
    /\ op = "next"
    /\ Len(pre.tmp) = 6
    /\ pre.selected = 5
    /\ pre.vertical_scroll = 3
    /\ selected = -1
    /\ tmp # pre.tmp

\* C5: update_suggestions(input) replaces the candidate list with the
\* completer's result and leaves selected, vertical_scroll and max unchanged.
C5_UpdateSuggestionsFrame ==
    op = "update_suggestions" =>
        /\ Len(invoked) = 1
        /\ tmp = invoked[1].result
        /\ selected = pre.selected
        /\ vertical_scroll = pre.vertical_scroll
        /\ max = pre.max

\* update_suggestions that replaced the list under a selection it does not hold.
C5_Witness ==
    /\ op = "update_suggestions"
    /\ tmp # pre.tmp
    /\ selected > -1
    /\ selected >= Len(tmp)
    /\ vertical_scroll > 0

\* Whether the reset inside the last next()/previous() was reached.
ResetTriggered ==
    \/ op = "next" /\ pre.selected + 1 >= Len(pre.tmp)
    \/ op = "previous" /\ pre.selected - 1 > -1 /\ pre.selected - 1 >= Len(pre.tmp)

\* C6: the completer is invoked exactly once per update_suggestions call and
\* exactly once, with the empty string, per reset, called directly or reached
\* inside next()/previous(); a next()/previous() that reaches no reset never
\* invokes the completer and never changes the candidate list.
C6_CompleterCalls ==
    /\ op = "new" => invoked = <<>>
    /\ op = "update_suggestions" => Len(invoked) = 1
    /\ op = "reset" => Len(invoked) = 1 /\ invoked[1].input = ""
    /\ op \in {"next", "previous"} =>
          IF ResetTriggered
          THEN Len(invoked) = 1 /\ invoked[1].input = "" /\ tmp = invoked[1].result
          ELSE invoked = <<>> /\ tmp = pre.tmp

\* previous() that reached the reset: the list shrank under the selection.
C6_Witness ==
    /\ op = "previous"
    /\ ResetTriggered
    /\ Len(invoked) = 1
    /\ selected = -1

(***************************************************************************)
(* The formatter: the claims.                                              *)
(***************************************************************************)
\* len(prefix) + len(suffix) + len(marker) of the call under way.
MinRequired == Len(call.prefix) + Len(call.suffix) + Len(SHORTEN_SUFFIX)

Empties(n) == [i \in 1..n |-> <<>>]

HasLineBreak(s) == \E k \in 1..Len(s) : s[k] \in {LF, CR}

\* C7: when len(prefix) + len(suffix) + 3 >= max, format_texts returns width 0
\* and one empty string per entry, and format_suggestions (one-space prefix and
\* suffix) returns an empty list and width 0.
C7_SmallBudgetGivesNothing ==
    (result.fn # "none" /\ MinRequired >= call.max) =>
        /\ ~result.panic
        /\ result.width = 0
        /\ result.fn = "format_texts" => result.rows = Empties(Len(call.o))
        /\ result.fn = "format_suggestions" => result.rows = <<>>

\* format_texts on two entries, one not empty, with max exactly
\* len(prefix) + len(suffix) + 3.
C7_Witness ==
    /\ result.fn = "format_texts"
    /\ call.max = MinRequired
    /\ Len(call.o) = 2
    /\ natural_width(call.o) > Len(SHORTEN_SUFFIX)
    /\ result.rows = <<<<>>, <<>>>>

\* format_suggestions on 3 suggestions with max = 3 (completion.rs:284-296).
C7_WitnessSuggestions ==
    /\ result.fn = "format_suggestions"
    /\ call.max = 3
    /\ Len(call.suggestions) = 3
    /\ result.rows = <<>>
    /\ result.width = 0

\* C8: whenever format_texts returns a non-zero width W, every returned string
\* has length W and W = len(prefix) + workingWidth + len(suffix); in every row
\* of format_suggestions the label has the label column's width, the
\* description the description column's, and the total is their sum.
C8_Original ==
    /\ (result.fn = "format_texts" /\ ~result.panic /\ result.width # 0) =>
          /\ \A i \in 1..Len(result.rows) : Len(result.rows[i]) = result.width
          /\ result.width =
                Len(call.prefix)
                + Min(natural_width(call.o),
                      call.max - Len(call.prefix) - Len(call.suffix))
                + Len(call.suffix)
    /\ (result.fn = "format_suggestions" /\ ~result.panic) =>
          \E wl \in 0..result.width :
              \A i \in 1..Len(result.rows) :
                  /\ Len(result.rows[i].text) = wl
                  /\ Len(result.rows[i].description) = result.width - wl

\* The layout the spec gives one entry `e` in a column `ww` wide.
Laid(e, ww, prefix, suffix) ==
    IF Len(e) <= ww
    THEN prefix \o e \o Spaces(ww - Len(e)) \o suffix
    ELSE prefix \o SubSeq(e, 1, ww - Len(SHORTEN_SUFFIX)) \o SHORTEN_SUFFIX \o suffix

\* C9: with a feasible budget, workingWidth = min(naturalWidth, max -
\* len(prefix) - len(suffix)); an entry no longer than workingWidth comes out
\* as prefix + entry + spaces up to workingWidth + suffix, a longer one as
\* prefix + its first workingWidth - 3 characters + "..." + suffix.  The entry
\* is the one the layout works on, line breaks deleted.
C9_Original ==
    (/\ result.fn = "format_texts"
     /\ ~result.panic
     /\ natural_width(call.o) > 0
     /\ MinRequired < call.max) =>
        LET ww == Min(natural_width(call.o),
                      call.max - Len(call.prefix) - Len(call.suffix))
        IN  /\ result.width = Len(call.prefix) + ww + Len(call.suffix)
            /\ \A i \in 1..Len(call.o) :
                   result.rows[i] =
                       Laid(delete_break_line_characters(call.o[i]), ww,
                            call.prefix, call.suffix)

\* C10: no string that format_texts or format_suggestions returns holds a line
\* break, and each is the padded or truncated form of its entry with the line
\* breaks deleted.
C10_Original ==
    /\ (result.fn = "format_texts" /\ ~result.panic) =>
          /\ \A i \in 1..Len(result.rows) : ~HasLineBreak(result.rows[i])
          /\ result.rows =
                format_texts([i \in 1..Len(call.o) |->
                                 delete_break_line_characters(call.o[i])],
                             call.max, call.prefix, call.suffix,
                             overflow_checks).rows
    /\ (result.fn = "format_suggestions" /\ ~result.panic) =>
          /\ \A i \in 1..Len(result.rows) :
                 /\ ~HasLineBreak(result.rows[i].text)
                 /\ ~HasLineBreak(result.rows[i].description)
          /\ result.rows =
                format_suggestions(
                    [i \in 1..Len(call.suggestions) |->
                        Suggestion(
                            delete_break_line_characters(call.suggestions[i].text),
                            delete_break_line_characters(call.suggestions[i].description))],
                    call.max, overflow_checks).rows

\* The three claims above on the inputs that hold no line break.
NoLineBreakInCall ==
    /\ \A i \in 1..Len(call.o) : ~HasLineBreak(call.o[i])
    /\ \A i \in 1..Len(call.suggestions) :
           /\ ~HasLineBreak(call.suggestions[i].text)
           /\ ~HasLineBreak(call.suggestions[i].description)

LayoutWithoutLineBreaks ==
    NoLineBreakInCall => C8_Original /\ C9_Original /\ C10_Original

\* C11: for every list of entries or suggestions (line breaks, multi-byte
\* characters and empty lists included) and every max >= 0, format_texts and
\* format_suggestions return; neither panics.
C11_Original == result.fn # "none" => ~result.panic

\* The same on entries of one-byte characters without line breaks.
OneByteCharsInCall ==
    /\ \A i \in 1..Len(call.o) : chars_count(call.o[i]) = Len(call.o[i])
    /\ \A i \in 1..Len(call.suggestions) :
           /\ chars_count(call.suggestions[i].text) = Len(call.suggestions[i].text)
           /\ chars_count(call.suggestions[i].description)
                  = Len(call.suggestions[i].description)

NoPanicOnPlainEntries ==
    (NoLineBreakInCall /\ OneByteCharsInCall) => C11_Original

\* The two columns format_suggestions is made of, as format_texts gives them.
LabelColumn ==
    format_texts([i \in 1..Len(call.suggestions) |-> call.suggestions[i].text],
                 call.max, LEFT_PREFIX, LEFT_SUFFIX, overflow_checks)

DescriptionColumn ==
    IF call.max - LabelColumn.width > 0
    THEN format_texts([i \in 1..Len(call.suggestions) |->
                          call.suggestions[i].description],
                      call.max - LabelColumn.width, RIGHT_PREFIX, RIGHT_SUFFIX,
                      overflow_checks)
    ELSE Returned(Empties(Len(call.suggestions)), 0)

\* C12: format_suggestions formats the labels against the full max and returns
\* an empty list and width 0 when the label column's width is 0; otherwise the
\* descriptions are formatted against max - labelWidth when that is positive,
\* else they are one empty string per row with width 0; the result has one row
\* per suggestion, in input order, and width labelWidth + descriptionWidth.
C12_TwoColumns ==
    (result.fn = "format_suggestions" /\ ~result.panic) =>
        IF LabelColumn.width = 0
        THEN result.rows = <<>> /\ result.width = 0
        ELSE /\ Len(result.rows) = Len(call.suggestions)
             /\ \A i \in 1..Len(result.rows) :
                    /\ result.rows[i].text = LabelColumn.rows[i]
                    /\ result.rows[i].description = DescriptionColumn.rows[i]
             /\ result.width = LabelColumn.width + DescriptionColumn.width

\* Two suggestions whose descriptions got a budget smaller than max and were
\* cut to it.
C12_Witness ==
    /\ result.fn = "format_suggestions"
    /\ ~result.panic
    /\ Len(result.rows) = 2
    /\ LabelColumn.width > 0
    /\ DescriptionColumn.width > 0
    /\ result.width = call.max
    /\ result.rows[1].text # result.rows[2].text
    /\ \E i \in 1..2 :
           Len(RIGHT_PREFIX) + Len(call.suggestions[i].description)
               + Len(RIGHT_SUFFIX) > DescriptionColumn.width

\* Labels that use the whole budget: every description comes back empty.
C12_WitnessNoRoom ==
    /\ result.fn = "format_suggestions"
    /\ ~result.panic
    /\ Len(result.rows) = 3
    /\ LabelColumn.width = call.max
    /\ result.width = call.max
    /\ \A i \in 1..3 : result.rows[i].description = <<>>

(***************************************************************************)
(* The document: the claims.  Lengths, rows and columns of the claims are  *)
(* in scalar values, the unit of the cursor.                               *)
(***************************************************************************)
StrictlyIncreasing(a) == \A i \in 1..(Len(a) - 1) : a[i] < a[i + 1]

LineBreaks(s) == Cardinality({k \in 1..Len(s) : s[k] = LF})

OneByteText == chars_count(doc.text) = Len(doc.text)

\* C13: line_start_indexes() is strictly increasing, starts with 0 and has
\* exactly line_count() entries, for single-line and empty text too, where
\* line_count() is the number of '\n' plus one.
C13_Original ==
    answer.fn = "line_start_indexes" =>
        /\ StrictlyIncreasing(answer.v)
        /\ answer.v[1] = 0
        /\ Len(answer.v) = line_count(doc)
        /\ line_count(doc) = LineBreaks(doc.text) + 1

\* The same on the texts of more than one line, and what a one-line text gives.
C13_OnSeveralLines == line_count(doc) > 1 => C13_Original

C13_OnOneLine ==
    (answer.fn = "line_start_indexes" /\ line_count(doc) = 1) =>
        answer.v = <<0, Len(doc.text) + 1>>

\* C14: for every offset in [0, length(text)], find_line_start_index(offset)
\* is (r, starts[r]) with starts = line_start_indexes() and r the one row with
\* starts[r] <= offset < starts[r+1], or the last row; the start of a row maps
\* to that row.
C14_RowOfOffset ==
    answer.fn = "find_line_start_index" =>
        /\ ~answer.panic
        /\ LET starts == line_start_indexes(doc)
               offset == answer.args[1]
               r == answer.v[1]
           IN  /\ r \in 0..(Len(starts) - 1)
               /\ answer.v[2] = starts[r + 1]
               /\ starts[r + 1] <= offset
               /\ r + 1 < Len(starts) => offset < starts[r + 2]
               /\ \A q \in 0..(Len(starts) - 1) : starts[q + 1] = offset => r = q

\* The offset is the start of a row below the first one.
C14_Witness ==
    /\ answer.fn = "find_line_start_index"
    /\ ~answer.panic
    /\ answer.v[1] >= 1
    /\ answer.args[1] = answer.v[2]
    /\ answer.v[1] + 1 < line_count(doc)

\* The rows and columns the round trip is claimed for.
InText(row, col) ==
    /\ row \in 0..(line_count(doc) - 1)
    /\ col <= Len(lines(doc)[row + 1])

\* C15: for every row in [0, line_count()-1] and col <= the length of that
\* line, translate_index_to_position(translate_row_col_to_index(row, col)) is
\* (row, col).
C15_RoundTrip ==
    /\ (answer.fn = "translate_row_col_to_index"
        /\ InText(answer.args[1], answer.args[2])) => ~answer.panic
    /\ (answer.fn = "translate_index_to_position"
        /\ InText(answer.from[1], answer.from[2])) =>
           /\ ~answer.panic
           /\ answer.v = answer.from

\* (2, 3) <-> 17 on the four-line text of the tests at document.rs:1042-1066.
C15_Witness ==
    /\ answer.fn = "translate_index_to_position"
    /\ doc.text = FixtureText
    /\ answer.from = <<2, 3>>
    /\ answer.args = <<17>>
    /\ answer.v = <<2, 3>>

\* C16: for every text, empty and single-line ones included, and every row and
\* col >= 0, translate_row_col_to_index does not panic and returns
\* start(r) + min(col, length of line r), r = min(row, line_count()-1), a
\* value within [0, length(text)].
C16_Original ==
    answer.fn = "translate_row_col_to_index" =>
        /\ ~answer.panic
        /\ LET r == Min(answer.args[1], line_count(doc) - 1)
           IN  /\ answer.v = line_start_indexes(doc)[r + 1]
                                + Min(answer.args[2], Len(lines(doc)[r + 1]))
               /\ answer.v \in 0..Len(doc.text)

C16_OnSeveralLines == line_count(doc) > 1 => C16_Original

\* Where the cursor is, and where the rows start, in scalar values.
CurrentRow == LineBreaks(text_before_cursor(doc))

CurrentColumn == chars_count(current_line_before_cursor(doc))

RowLength(r) == chars_count(lines(doc)[r + 1])

RECURSIVE RowStart(_)
RowStart(r) == IF r = 0 THEN 0 ELSE RowStart(r - 1) + RowLength(r - 1) + 1

\* C17: for 0 <= cursor <= length(text), every count and optional preferred
\* column, get_cursor_up_position and get_cursor_down_position do not panic
\* and return d with cursor + d in [0, length(text)], on row
\* clamp(currentRow -/+ count, 0, line_count()-1), at column
\* min(col, length of that row), col the preferred column or the current one.
C17_Original ==
    answer.fn \in {"get_cursor_up_position", "get_cursor_down_position"} =>
        /\ ~answer.panic
        /\ LET count == answer.args[1]
               preferred_column == answer.args[2]
               col == IF preferred_column.some THEN preferred_column.v ELSE CurrentColumn
               to == IF answer.fn = "get_cursor_up_position"
                     THEN CurrentRow - count
                     ELSE CurrentRow + count
               r == clamp(to, 0, line_count(doc) - 1)
           IN  /\ doc.cursor_position + answer.v \in 0..chars_count(doc.text)
               /\ doc.cursor_position + answer.v = RowStart(r) + Min(col, RowLength(r))

\* The same on one-byte texts of more than one line, for moves that do not
\* ask for a row above the first one.
C17_OnSeveralOneByteLines ==
    (/\ OneByteText
     /\ line_count(doc) > 1
     /\ answer.fn = "get_cursor_down_position" => CurrentRow + answer.args[1] >= 0) =>
        C17_Original

\* C18: for count >= 0, get_cursor_left_position(count) is
\* -min(count, current column) and get_cursor_right_position(count) is
\* min(count, scalar values from the cursor to the end of the line), so the
\* moved cursor stays on its line and within [0, length(text)]; for count < 0
\* each gives what the other gives for -count.
C18_Original ==
    /\ answer.fn = "get_cursor_left_position" =>
          /\ ~answer.panic
          /\ answer.v = IF answer.args[1] >= 0
                        THEN 0 - Min(answer.args[1], CurrentColumn)
                        ELSE Min(0 - answer.args[1],
                                 chars_count(current_line_after_cursor(doc)))
          /\ answer.args[1] < 0 =>
                answer.v = get_cursor_right_position(doc, 0 - answer.args[1]).v
    /\ answer.fn = "get_cursor_right_position" =>
          /\ ~answer.panic
          /\ answer.v = IF answer.args[1] >= 0
                        THEN Min(answer.args[1],
                                 chars_count(current_line_after_cursor(doc)))
                        ELSE 0 - Min(0 - answer.args[1], CurrentColumn)
          /\ answer.args[1] < 0 =>
                answer.v = get_cursor_left_position(doc, 0 - answer.args[1]).v
    /\ answer.fn \in {"get_cursor_left_position", "get_cursor_right_position"} =>
          doc.cursor_position + answer.v \in 0..chars_count(doc.text)

C18_OnOneByteText == OneByteText => C18_Original

\* C19, with positions counted from 0 as the cursor offset is:
\* get_char_relative_to_cursor(offset) is the scalar value at position
\* cursor + offset when that is within the text, the default character
\* otherwise.
C19_Original ==
    answer.fn = "get_char_relative_to_cursor" =>
        LET position == doc.cursor_position + answer.args[1]
            cs == chars(doc.text)
        IN  answer.v = IF position \in 0..(Len(cs) - 1)
                       THEN cs[position + 1]
                       ELSE DefaultChar

\* C19 as the code has it: the scalar value number cursor + offset counted
\* from 1 (offset 1 is the one right after the cursor, offset 0 the one right
\* before it), the default character when cursor + offset is not in
\* 1..length(text).
C19_CharNumbered ==
    answer.fn = "get_char_relative_to_cursor" =>
        LET number == doc.cursor_position + answer.args[1]
            cs == chars(doc.text)
        IN  answer.v = IF number \in 1..Len(cs) THEN cs[number] ELSE DefaultChar

\* The test at document.rs:499-516: cursor after "line 1\nlin", offset 1, 'e'.
C19_Witness ==
    /\ answer.fn = "get_char_relative_to_cursor"
    /\ doc = Document(FixtureText, 10)
    /\ answer.args = <<1>>
    /\ answer.v = <<"e">>

\* The scalar values of text_before_cursor() up to and including the last one
\* that is in the set `pat`; 0 when there is none.
ThroughLast(pat) ==
    LET cs == chars(text_before_cursor(doc))
    IN  MaxOf({k \in 1..Len(cs) : cs[k] \in pat})

\* C20: for every non-empty separator set,
\* find_start_of_previous_word_until_separator(sep) is the number of scalar
\* values of text_before_cursor() up to and including the last one in sep, 0
\* when there is none; find_start_of_previous_word() is the same with {' '};
\* the unit is scalar values, not bytes.
C20_Original ==
    /\ (answer.fn = "find_start_of_previous_word_until_separator"
        /\ answer.args[1] # <<>>) =>
           answer.v = ThroughLast(SepChars(answer.args[1]))
    /\ answer.fn = "find_start_of_previous_word" =>
           answer.v = ThroughLast({<<" ">>})

C20_OnOneByteText == OneByteText => C20_Original

\* The separators a separator string stands for; the empty one falls back to
\* the plain space.
PatOf(sep) == IF sep = <<>> THEN {<<" ">>} ELSE SepChars(sep)

\* In scalar values: text_before_cursor() with the run of `pat` next to the
\* cursor taken off, then all of it up to and including the last scalar value
\* in `pat`; 0 when nothing is left or none is in `pat`.
SkipThenThroughLast(pat) ==
    LET cs == chars(text_before_cursor(doc))
        last == MaxOf({k \in 1..Len(cs) : cs[k] \notin pat})
    IN  MaxOf({k \in 1..(last - 1) : cs[k] \in pat})

\* C21: find_start_of_previous_word_with_space(), and the
\* ignore_next_to_cursor variant with a non-empty separator set, skip the run
\* of separators right before the cursor and return the index just after the
\* last separator before the text that remains; 0 when text_before_cursor() is
\* separators only or no separator precedes the last word.
C21_Original ==
    /\ answer.fn = "find_start_of_previous_word_with_space" =>
           answer.v = SkipThenThroughLast({<<" ">>})
    /\ (answer.fn = "find_start_of_previous_word_until_separator_ignore_next_to_cursor"
        /\ answer.args[1] # <<>>) =>
           answer.v = SkipThenThroughLast(SepChars(answer.args[1]))

C21_OnOneByteText == OneByteText => C21_Original

\* The three examples of the claim.
C21_Examples ==
    /\ (answer.fn = "find_start_of_previous_word_with_space"
        /\ doc = AtEnd(apple \o <<" ", "b", "a", "n", "a", " ">>)) => answer.v = 6
    /\ (answer.fn = "find_start_of_previous_word_with_space"
        /\ doc = AtEnd(apple \o <<" ">>)) => answer.v = 0
    /\ (answer.fn = "find_start_of_previous_word_until_separator_ignore_next_to_cursor"
        /\ answer.args[1] = <<" ", "/">>
        /\ doc = AtEnd(<<"f", "i", "l", "e", "/">>)) => answer.v = 0

SeparatorFunctions ==
    {"find_start_of_previous_word_until_separator",
     "find_start_of_previous_word_until_separator_ignore_next_to_cursor",
     "find_end_of_current_word_until_separator",
     "find_end_of_current_word_until_separator_ignore_next_to_cursor"}

\* C22: each of the four separator-taking functions, called with the empty
\* separator set, returns what its default counterpart returns
\* (until_separator: the plain-space one; ignore_next_to_cursor: the with_space
\* one; for previous-word starts and current-word ends), and so it does with
\* the one-character set " ".
C22_EmptySetIsSpace ==
    (answer.fn \in SeparatorFunctions /\ answer.args[1] \in {<<>>, <<" ">>}) =>
        /\ answer.fn = "find_start_of_previous_word_until_separator" =>
               answer.v = find_start_of_previous_word(doc)
        /\ answer.fn = "find_start_of_previous_word_until_separator_ignore_next_to_cursor" =>
               answer.v = find_start_of_previous_word_with_space(doc)
        /\ answer.fn = "find_end_of_current_word_until_separator" =>
               answer.v = find_end_of_current_word(doc)
        /\ answer.fn = "find_end_of_current_word_until_separator_ignore_next_to_cursor" =>
               answer.v = find_end_of_current_word_with_space(doc)

\* The empty set on a text where skipping the spaces next to the cursor
\* matters.
C22_Witness ==
    /\ answer.fn = "find_start_of_previous_word_until_separator_ignore_next_to_cursor"
    /\ answer.args = <<<<>>>>
    /\ answer.v > 0
    /\ answer.v # find_start_of_previous_word(doc)

\* In scalar values: where the first scalar value in `pat` lies in
\* text_after_cursor(), after the leading run of `pat` when `skipping`; the
\* length of text_after_cursor() when there is none.
FirstBoundary(pat, skipping) ==
    LET cs == chars(text_after_cursor(doc))
        words == {k \in 1..Len(cs) : cs[k] \notin pat}
        from == IF skipping
                THEN IF words = {} THEN Len(cs) + 1 ELSE MinOf(words)
                ELSE 1
        found == {k \in from..Len(cs) : cs[k] \in pat}
    IN  IF found = {} THEN Len(cs) ELSE MinOf(found) - 1

EndFunctions ==
    {"find_end_of_current_word", "find_end_of_current_word_with_space",
     "find_end_of_current_word_until_separator",
     "find_end_of_current_word_until_separator_ignore_next_to_cursor"}

\* C23: each find_end_of_current_word* function returns an offset in
\* [0, length of text_after_cursor()]: the position of the first separator in
\* text_after_cursor() (after the leading run of separators for the with_space
\* and ignore_next_to_cursor variants), the length of the remaining text when
\* there is none; in scalar values, so cursor + result <= length(text).
C23_Original ==
    /\ answer.fn = "find_end_of_current_word" =>
           answer.v = FirstBoundary({<<" ">>}, FALSE)
    /\ answer.fn = "find_end_of_current_word_with_space" =>
           answer.v = FirstBoundary({<<" ">>}, TRUE)
    /\ answer.fn = "find_end_of_current_word_until_separator" =>
           answer.v = FirstBoundary(PatOf(answer.args[1]), FALSE)
    /\ answer.fn = "find_end_of_current_word_until_separator_ignore_next_to_cursor" =>
           answer.v = FirstBoundary(PatOf(answer.args[1]), TRUE)
    /\ answer.fn \in EndFunctions =>
           /\ answer.v \in 0..chars_count(text_after_cursor(doc))
           /\ doc.cursor_position + answer.v <= chars_count(doc.text)

C23_OnOneByteText == OneByteText => C23_Original

\* The longest prefix of s that is whitespace only.
WhitespacePrefix(s) ==
    SubSeq(s, 1, MaxOf({k \in 0..Len(s) : \A i \in 1..k : s[i] \in WhiteSpace}))

\* C24: leading_whitespace_in_current_line() returns the longest prefix of
\* current_line() that is whitespace only (empty when the line starts with
\* another character), whatever whitespace the line ends with.
C24_Original ==
    answer.fn = "leading_whitespace_in_current_line" =>
        /\ ~answer.panic
        /\ answer.v = WhitespacePrefix(current_line(doc))

\* The same on the lines that do not end with whitespace after a word.
C24_WithoutTrailingWhitespace ==
    (\/ current_line(doc) = <<>>
     \/ current_line(doc)[Len(current_line(doc))] \notin WhiteSpace
     \/ trim(current_line(doc)) = <<>>) => C24_Original

\* C25: for 0 <= cursor <= length(text), ASCII or multi-byte,
\* cursor_position_row() is the number of line breaks in text_before_cursor()
\* and cursor_position_col() the number of scalar values in
\* current_line_before_cursor(); so on_last_line() holds exactly when
\* text_after_cursor() holds no line break.
C25_Original ==
    /\ answer.fn = "cursor_position_row" =>
           ~answer.panic /\ answer.v = CurrentRow
    /\ answer.fn = "cursor_position_col" =>
           ~answer.panic /\ answer.v = CurrentColumn
    /\ answer.fn = "on_last_line" =>
           ~answer.panic /\ (answer.v <=> LineBreaks(text_after_cursor(doc)) = 0)

C25_OnOneByteText == OneByteText => C25_Original

(***************************************************************************)
(* The manager and the formatter: further claims.                          *)
(***************************************************************************)
\* The manager as it was when the last call began.
Before ==
    [selected |-> pre.selected, tmp |-> pre.tmp, max |-> pre.max,
     vertical_scroll |-> pre.vertical_scroll, invoked |-> <<>>]

\* normalize() and next() as the specification words them, on the window
\* min(windowSize, candidateCount).
normalize_as_specified(m, res) ==
    IF m.selected > -1 /\ m.selected >= Len(m.tmp)
    THEN [m EXCEPT !.selected = -1, !.vertical_scroll = 0, !.tmp = res]
    ELSE IF m.selected < -1
         THEN [m EXCEPT !.selected = Len(m.tmp) - 1,
                        !.vertical_scroll = Len(m.tmp) - Min(m.max, Len(m.tmp))]
         ELSE m

next_as_specified(m, res) ==
    LET scrolled == IF m.vertical_scroll + Min(m.max, Len(m.tmp)) - 1 = m.selected
                    THEN [m EXCEPT !.vertical_scroll = @ + 1]
                    ELSE m
    IN  normalize_as_specified([scrolled EXCEPT !.selected = @ + 1], res)

\* C26: in every reachable state with max > 0, next() as implemented (testing
\* vertical_scroll + max - 1 == selected) leaves the selected, vertical_scroll
\* and candidates that next() as specified (testing scrollOffset +
\* min(max, candidateCount) - 1 == selectedIndex) leaves.
C26_NextAsSpecified ==
    op = "next" =>
        /\ \A res \in complete(completer, "") :
               LET s == next_as_specified(Before, res)
                   i == next(Before, res)
               IN  /\ i.selected = s.selected
                   /\ i.vertical_scroll = s.vertical_scroll
                   /\ i.tmp = s.tmp
        /\ \E res \in complete(completer, "") :
               LET s == next_as_specified(Before, res)
               IN  /\ selected = s.selected
                   /\ vertical_scroll = s.vertical_scroll
                   /\ tmp = s.tmp

\* next() from the last of fewer candidates than the window holds: the two
\* tests differ (the specified one scrolls, the implemented one does not).
C26_Witness ==
    /\ op = "next"
    /\ Len(pre.tmp) >= 1
    /\ Len(pre.tmp) < pre.max
    /\ pre.selected = Len(pre.tmp) - 1
    /\ pre.vertical_scroll = 0
    /\ selected = -1
    /\ vertical_scroll = 0

\* C27: with a constant list of n >= 1 candidates, previous() goes from idle
\* to n-1, then n-2, ..., 0, idle, and n-1 again; from selected > 0 it lowers
\* vertical_scroll by one exactly when vertical_scroll == selected before the
\* step, and from selected = 0 it goes to idle with vertical_scroll unchanged.
C27_PreviousCycles ==
    (/\ op = "previous"
     /\ completer.fixed
     /\ Len(completer.list) >= 1
     /\ pre.tmp = completer.list
     /\ pre.selected \in -1..(Len(pre.tmp) - 1)) =>
        LET n == Len(completer.list)
        IN  /\ tmp = completer.list
            /\ pre.selected = -1 =>
                   /\ selected = n - 1
                   /\ vertical_scroll = n - Min(max, n)
            /\ pre.selected = 0 =>
                   /\ selected = -1
                   /\ vertical_scroll = pre.vertical_scroll
            /\ pre.selected > 0 =>
                   /\ selected = pre.selected - 1
                   /\ vertical_scroll = IF pre.vertical_scroll = pre.selected
                                        THEN pre.vertical_scroll - 1
                                        ELSE pre.vertical_scroll

\* previous() at the top edge of a scrolled window.
C27_Witness ==
    /\ op = "previous"
    /\ completer.fixed
    /\ pre.tmp = completer.list
    /\ pre.selected > 0
    /\ pre.vertical_scroll = pre.selected
    /\ selected = pre.selected - 1
    /\ vertical_scroll = pre.vertical_scroll - 1

\* C28: after next(), previous() or reset(), for any completer and any
\* interleaving with update_suggestions, the session is idle (selected = -1)
\* or completing with 0 <= selected < number of candidates, and
\* vertical_scroll >= 0; selected is never left below -1.
C28_SelectionValidAfterMove ==
    op \in {"next", "previous", "reset"} =>
        /\ selected = -1 \/ (0 <= selected /\ selected < Len(tmp))
        /\ vertical_scroll >= 0

\* previous() from idle on an empty list: selected goes to -2 and is wrapped
\* back to -1.
C28_Witness ==
    /\ op = "previous"
    /\ pre.selected = -1
    /\ pre.tmp = <<>>
    /\ selected = -1
    /\ vertical_scroll = 0

\* previous() on a selection that update_suggestions left past the end.
C28_WitnessStale ==
    /\ op = "previous"
    /\ pre.selected > Len(pre.tmp)
    /\ selected = -1

\* C29: in every state reachable by update_suggestions, next, previous and
\* reset with max > 0, the window lies inside the candidate list:
\* 0 <= vertical_scroll and
\* vertical_scroll + min(max, candidates) <= number of candidates.
C29_Original ==
    /\ 0 <= vertical_scroll
    /\ vertical_scroll + EffectiveWindow <= Len(tmp)

\* The same while the candidate list is the one constant list of the completer.
C29_OnConstantList ==
    (completer.fixed /\ tmp \in {<<>>, completer.list}) => C29_Original

\* Where the window can stay past the end: only after update_suggestions made
\* the list shorter, until a reset.
C29_AfterMoveOnSameList ==
    (op \in {"new", "reset"} \/ (op \in {"next", "previous"} /\ invoked # <<>>)) =>
        C29_Original

\* C30: for every list and every max, the width format_suggestions returns
\* never exceeds max, and the width format_texts returns never exceeds its max
\* argument.
C30_WidthWithinBudget ==
    (result.fn # "none" /\ ~result.panic) => result.width <= call.max

\* format_texts on entries wider than the budget: the width is the whole max.
C30_Witness ==
    /\ result.fn = "format_texts"
    /\ ~result.panic
    /\ Len(call.prefix) + natural_width(call.o) + Len(call.suffix) > call.max
    /\ result.width = call.max
    /\ result.width > 0

\* format_suggestions whose two columns fill the budget exactly.
C30_WitnessSuggestions ==
    /\ result.fn = "format_suggestions"
    /\ ~result.panic
    /\ LabelColumn.width > 0
    /\ DescriptionColumn.width > 0
    /\ result.width = call.max

====
